---------------------------- MODULE Spec2Model ----------------------------
(***************************************************************************)
(* Model of fpLocalize.py (Python 2): the FingerprintGenerator, which      *)
(* selects the beacons that span a fingerprint vector and encodes          *)
(* observations, and the RoomClassifier, which wraps a dimensionality      *)
(* reduction and a nearest-neighbour index and flags outliers.             *)
(*                                                                         *)
(* One FingerprintGenerator instance and one RoomClassifier instance are   *)
(* modelled.  Every action is one call of one method, from its entry to    *)
(* its return or to the exception that ends it.  The variables `call`,     *)
(* `ret` and `err` record the last call, what it returned and the          *)
(* exception it raised ("" when it returned normally).                     *)
(***************************************************************************)
EXTENDS Integers, Sequences, FiniteSets, TLC

VARIABLES
    fgState,           \* "new": allocated, __init__ not yet run; "ready"; "failed"
    _method,           \* self._method  ("unset" while the attribute does not exist)
    _beacons,          \* self._beacons (a Python value: None or a list)
    _undetected_value, \* self._undetected_value (0 while the attribute does not exist)
    _attrs,            \* the names of the attributes the instance has
    call,              \* the last FingerprintGenerator call and its arguments
    ret,               \* the list the last call returned (<<>> when it returned none)
    err,               \* the exception the last call raised, "" when none
    established,       \* history: the BeaconSet has been fixed (see FGConstruct, FGFit)
    fit_called,        \* history: fit has been called on the instance
    rcState,           \* RoomClassifier: "new" before __init__, then "ready"
    outlier_threshold, \* self.outlier_threshold
    dimred,            \* self.dimred: the reduction stage and what it was fit to
    classifier,        \* self.classifier: the neighbour index and what it was fit to
    fitted_on,         \* history: the fingerprints of the last fit that returned
    rcCall,            \* the last RoomClassifier call and its arguments
    rcRet,             \* the list of booleans the last call returned
    rcErr              \* the exception the last RoomClassifier call raised

fgvars == <<fgState, _method, _beacons, _undetected_value, _attrs, call, ret, err,
           established, fit_called>>

rcvars == <<rcState, outlier_threshold, dimred, classifier, fitted_on, rcCall, rcRet, rcErr>>

vars == <<fgvars, rcvars>>

----------------------------------------------------------------------------
(* Bounds of the model.                                                    *)

\* longest list of observations passed to fit and transform
MaxObs == 2
\* longest beacon list passed to the constructor
MaxBeacons == 2

\* beacon identifiers and their RSSI, as in _fingerprint_example
Beacons == {"A", "B"}

ExampleRssi == [b \in Beacons |-> IF b = "A" THEN -10 ELSE -20]

\* default of the constructor's undetected_value parameter
DefaultUndetected == -100
\* the undetected_value of _fingerprint_example
ExampleUndetected == -99

----------------------------------------------------------------------------
(* Python values.                                                          *)

None == [none |-> TRUE, items |-> <<>>]

List(s) == [none |-> FALSE, items |-> s]

\* Python truth value of None or a list: `not beacons`
Falsy(v) == v.none \/ v.items = <<>>

Range(s) == {s[i] : i \in 1..Len(s)}

SeqsUpTo(S, n) == UNION {[1..k -> S] : k \in 0..n}

\* an observation: a dict from the beacons detected to their RSSI
Observations == {[b \in S |-> ExampleRssi[b]] : S \in SUBSET Beacons}

RssiLists == SeqsUpTo(Observations, MaxObs)

BeaconArgs == {None} \cup {List(s) : s \in SeqsUpTo(Beacons, MaxBeacons)}

MethodArgs == {"fixed", "always_visible", "all", "nearest"}

\* the orders in which a dict or a set of the given elements can be iterated
Orders(S) == {s \in [1..Cardinality(S) -> S] : Range(s) = S}

----------------------------------------------------------------------------
(* Helpers of FingerprintGenerator.                                        *)

\* _make_unique: list(set(mylist)), in any of the orders the set can have
_make_unique(mylist) == Orders(Range(mylist))

\* _set_method's test: the method is one of the three known ones
KnownMethod(method) == method \in {"fixed", "always_visible", "all"}

\* list.remove(x): the list without the first occurrence of x
RECURSIVE ListRemove(_, _)
ListRemove(l, x) ==
    IF l = <<>> THEN <<>>
    ELSE IF Head(l) = x THEN Tail(l)
    ELSE <<Head(l)>> \o ListRemove(Tail(l), x)

\* the inner loop of _fit_always_visible: `for beacon in beacons` by index i
\* over the list that the loop body shortens
RECURSIVE ScanObservation(_, _, _)
ScanObservation(beacons, observation, i) ==
    IF i > Len(beacons) THEN beacons
    ELSE IF beacons[i] \notin DOMAIN observation
         THEN ScanObservation(ListRemove(beacons, beacons[i]), observation, i + 1)
         ELSE ScanObservation(beacons, observation, i + 1)

\* the outer loop of _fit_always_visible from observation k on
RECURSIVE ScanAll(_, _, _)
ScanAll(beacons, rssi, k) ==
    IF k > Len(rssi) THEN beacons
    ELSE ScanAll(ScanObservation(beacons, rssi[k], 1), rssi, k + 1)

\* the list _fit_all builds: every key of every observation, in order
RECURSIVE AllKeys(_, _)
AllKeys(rssi, keyOrder) ==
    IF rssi = <<>> THEN <<>>
    ELSE keyOrder[1] \o AllKeys(Tail(rssi), Tail(keyOrder))

\* TransformRow with the module's default fill in place of the instance's
RECURSIVE TransformRowDefaultFill(_, _, _, _, _)
TransformRowDefaultFill(row, observation, beacons, undetected, j) ==
    IF j > Len(beacons) THEN row
    ELSE TransformRowDefaultFill(
            Append(row, IF beacons[j] \in DOMAIN observation
                        THEN observation[beacons[j]]
                        ELSE DefaultUndetected),
            observation, beacons, undetected, j + 1)

\* one row of transform: the inner loop over self._beacons from index j on
RECURSIVE TransformRow(_, _, _, _, _)
TransformRow(row, observation, beacons, undetected, j) ==
    IF j > Len(beacons) THEN row
    ELSE TransformRow(
            Append(row, IF beacons[j] \in DOMAIN observation
                        THEN observation[beacons[j]]
                        ELSE undetected),
            observation, beacons, undetected, j + 1)

\* the outer loop of transform from observation k on
RECURSIVE TransformRows(_, _, _, _, _)
TransformRows(tf, rssi, beacons, undetected, k) ==
    IF k > Len(rssi) THEN tf
    ELSE TransformRows(
            Append(tf, TransformRow(<<>>, rssi[k], beacons, undetected, 1)),
            rssi, beacons, undetected, k + 1)

----------------------------------------------------------------------------
(* FingerprintGenerator.                                                   *)

NoCall == [op |-> "none", rssi |-> <<>>, method |-> "None", beacons |-> None,
           undetected_value |-> 0]

FGNew ==
    /\ fgState = "new"
    /\ _method = "unset"
    /\ _beacons = None
    /\ _undetected_value = 0
    /\ _attrs = {}
    /\ call = NoCall
    /\ ret = <<>>
    /\ err = ""
    /\ established = FALSE
    /\ fit_called = FALSE

\* the test on line 35 with `beacons is None` in place of `not beacons`
FixedNeedsBeaconsNoneOnly(method, beacons) == method = "fixed" /\ beacons.none

\* the test on line 35 of __init__
FixedNeedsBeacons(method, beacons) == method = "fixed" /\ Falsy(beacons)

\* __init__(method, undetected_value, beacons)
FGConstruct(method, undetected_value, beacons) ==
    /\ fgState = "new"
    /\ call' = [op |-> "__init__", rssi |-> <<>>, method |-> method,
                beacons |-> beacons, undetected_value |-> undetected_value]
    /\ ret' = <<>>
    /\ UNCHANGED fit_called
    /\ IF FixedNeedsBeacons(method, beacons) \/ ~KnownMethod(method)
       THEN /\ err' = "Exception"
            /\ fgState' = "failed"
            /\ UNCHANGED <<_method, _beacons, _undetected_value, _attrs, established>>
       ELSE /\ err' = ""
            /\ fgState' = "ready"
            \* supplied at construction for the fixed method
            /\ established' = (method = "fixed")
            /\ _method' = method
            /\ _beacons' = beacons
            /\ _undetected_value' = undetected_value
            /\ _attrs' = {"_method", "_beacons", "_undetected_value"}

\* the order in which one observation's keys are iterated where the order
\* cannot be seen in the result
Keys(observation) == CHOOSE s \in Orders(DOMAIN observation) : TRUE

\* _fit_always_visible(rssi), with rssi[0].keys() returning keys0
_fit_always_visible(rssi, keys0) == ScanAll(keys0, rssi, 1)

\* _fit_all(rssi): the list handed to _make_unique
_fit_all(rssi) == AllKeys(rssi, [k \in 1..Len(rssi) |-> Keys(rssi[k])])

\* the method in force after `if method: self._set_method(method)`
EffectiveMethod(method) == IF method = "None" THEN _method ELSE method

\* NewBeacons without the early return under fixed: fixed falls through to
\* the fit of all
NewBeaconsRefitsFixed(method, rssi, current) ==
    CASE method = "always_visible" ->
           {List(b) : b \in UNION {_make_unique(_fit_always_visible(rssi, keys0)) :
                                      keys0 \in Orders(DOMAIN rssi[1])}}
      [] OTHER -> {List(b) : b \in _make_unique(_fit_all(rssi))}

\* lines 58-64 of fit: the values self._beacons can have when fit returns
\* under the method in force, with rssi non-empty under always_visible
NewBeacons(method, rssi, current) ==
    CASE method = "fixed" -> {current}
      [] method = "always_visible" ->
           {List(b) : b \in UNION {_make_unique(_fit_always_visible(rssi, keys0)) :
                                      keys0 \in Orders(DOMAIN rssi[1])}}
      [] OTHER -> {List(b) : b \in _make_unique(_fit_all(rssi))}

\* rssi[0] in _fit_always_visible raises on an empty list
FitRaisesIndexError(method, rssi) == method = "always_visible" /\ rssi = <<>>

\* fit(rssi, method): method "None" stands for the default None
FGFit(rssi, method) ==
    /\ fgState = "ready"
    /\ call' = [op |-> "fit", rssi |-> rssi, method |-> method,
                beacons |-> None, undetected_value |-> 0]
    /\ ret' = <<>>
    /\ fit_called' = TRUE
    /\ UNCHANGED <<fgState, _undetected_value, _attrs>>
    /\ IF method # "None" /\ ~KnownMethod(method)
       THEN \* _set_method raises before it assigns
            /\ err' = "Exception"
            /\ UNCHANGED <<_method, _beacons, established>>
       ELSE /\ _method' = EffectiveMethod(method)
            /\ IF FitRaisesIndexError(EffectiveMethod(method), rssi)
               THEN /\ err' = "IndexError"
                    /\ UNCHANGED <<_beacons, established>>
               ELSE /\ err' = ""
                    /\ _beacons' \in NewBeacons(EffectiveMethod(method), rssi, _beacons)
                    \* populated by a fit that returned
                    /\ established' = (established \/ ~_beacons'.none)

\* transform(rssi)
FGTransform(rssi) ==
    /\ fgState = "ready"
    /\ call' = [op |-> "transform", rssi |-> rssi, method |-> "None",
                beacons |-> None, undetected_value |-> 0]
    /\ UNCHANGED <<fgState, _method, _beacons, _undetected_value, _attrs,
                   established, fit_called>>
    /\ IF _beacons.none /\ rssi # <<>>
       THEN \* `for beacon in self._beacons` over None raises
            /\ err' = "TypeError"
            /\ ret' = <<>>
       ELSE /\ err' = ""
            /\ ret' = TransformRows(<<>>, rssi, _beacons.items, _undetected_value, 1)

UndetectedArgs == {DefaultUndetected, ExampleUndetected}

Construct ==
    /\ \E m \in MethodArgs, u \in UndetectedArgs, b \in BeaconArgs :
          FGConstruct(m, u, b)
    /\ UNCHANGED rcvars

Fit ==
    /\ \E rssi \in RssiLists, m \in MethodArgs \cup {"None"} : FGFit(rssi, m)
    /\ UNCHANGED rcvars

Transform ==
    /\ \E rssi \in RssiLists : FGTransform(rssi)
    /\ UNCHANGED rcvars

----------------------------------------------------------------------------
(* RoomClassifier.  The reduction stage (PCA) and the neighbour index      *)
(* (KNeighborsClassifier) belong to the numeric library and are modelled   *)
(* by their contract: fitting the reduction fixes one map from             *)
(* fingerprints to reduced points, transform applies that map, and         *)
(* kneighbors with n_neighbors=1 gives the distance to the nearest         *)
(* stored point.  Reduced points lie on one axis of the fingerprint, the   *)
(* axis being the library's choice; centring by the mean shifts all        *)
(* reduced points alike and is left out.  fit is called with as many       *)
(* labels as fingerprints.  predict differs from predict_outlier only in   *)
(* the library call that follows the reduction (the vote among the         *)
(* n_neighbors=5 nearest labels) and is not modelled.                      *)

\* longest list of fingerprints passed to fit and to predict_outlier
MaxFingerprints == 2

\* length of a fingerprint vector: one position per beacon
Dim == Cardinality(Beacons)

\* default of the constructor's outlier_threshold parameter
DefaultThreshold == 10

\* the thresholds instances are constructed with: the default and a tighter one
Thresholds == {DefaultThreshold, 5}

FpValues == {-10, -20}

Fingerprints == [1..Dim -> FpValues]

\* label lists of length n: one room per fingerprint, or one room for all
LabelLists(n) == {[i \in 1..n |-> i], [i \in 1..n |-> 1]}

Unfitted == [fitted |-> FALSE, axis |-> 0]

NoIndex == [fitted |-> FALSE, X |-> <<>>, y |-> <<>>]

NoRcCall == [op |-> "none", fingerprints |-> <<>>, label |-> <<>>, outlier_threshold |-> 0]

Abs(x) == IF x < 0 THEN -x ELSE x

\* PCA.transform on one fingerprint
PCA_transform(d, x) == x[d.axis]

\* PCA.transform on a list of fingerprints
PCA_transform_all(d, fingerprints) ==
    [i \in 1..Len(fingerprints) |-> PCA_transform(d, fingerprints[i])]

\* kneighbors(fp, n_neighbors=1): the distance from q to the nearest of X[k..]
RECURSIVE NearestDist(_, _, _)
NearestDist(q, X, k) ==
    IF k = Len(X) THEN Abs(q - X[k])
    ELSE LET rest == NearestDist(q, X, k + 1)
         IN  IF Abs(q - X[k]) < rest THEN Abs(q - X[k]) ELSE rest

\* line 162 with >= in place of >
IsOutlierInclusive(dist, threshold) == dist >= threshold

\* line 162: dist > self.outlier_threshold
IsOutlier(dist, threshold) == dist > threshold

RCNew ==
    /\ rcState = "new"
    /\ outlier_threshold = 0
    /\ dimred = Unfitted
    /\ classifier = NoIndex
    /\ fitted_on = <<>>
    /\ rcCall = NoRcCall
    /\ rcRet = <<>>
    /\ rcErr = ""

\* __init__(outlier_threshold)
RCConstruct(threshold) ==
    /\ rcState = "new"
    /\ rcState' = "ready"
    /\ outlier_threshold' = threshold
    /\ dimred' = Unfitted
    /\ classifier' = NoIndex
    /\ rcCall' = [NoRcCall EXCEPT !.op = "__init__", !.outlier_threshold = threshold]
    /\ rcRet' = <<>>
    /\ rcErr' = ""
    /\ UNCHANGED fitted_on

\* fit(fingerprints, label)
RCFit(fingerprints, label) ==
    /\ rcState = "ready"
    /\ rcCall' = [NoRcCall EXCEPT !.op = "fit", !.fingerprints = fingerprints,
                                  !.label = label]
    /\ rcRet' = <<>>
    /\ UNCHANGED <<rcState, outlier_threshold>>
    /\ IF fingerprints = <<>>
       THEN \* the numeric layer refuses an empty training set
            /\ rcErr' = "ValueError"
            /\ UNCHANGED <<dimred, classifier, fitted_on>>
       ELSE /\ rcErr' = ""
            /\ \E axis \in 1..Dim :
                 /\ dimred' = [fitted |-> TRUE, axis |-> axis]
                 /\ classifier' = [fitted |-> TRUE,
                                   X |-> PCA_transform_all(dimred', fingerprints),
                                   y |-> label]
            /\ fitted_on' = fingerprints

\* predict_outlier(fingerprints)
RCPredictOutlier(fingerprints) ==
    /\ rcState = "ready"
    /\ rcCall' = [NoRcCall EXCEPT !.op = "predict_outlier", !.fingerprints = fingerprints]
    /\ UNCHANGED <<rcState, outlier_threshold, dimred, classifier, fitted_on>>
    /\ IF ~dimred.fitted
       THEN \* self.dimred.transform has nothing to apply: the call ends in
            \* an exception raised inside the library
            /\ rcErr' = "LibraryError"
            /\ rcRet' = <<>>
       ELSE /\ rcErr' = ""
            /\ rcRet' = LET fp == PCA_transform_all(dimred, fingerprints)
                        IN  [i \in 1..Len(fp) |->
                               IsOutlier(NearestDist(fp[i], classifier.X, 1),
                                         outlier_threshold)]

ConstructRC ==
    /\ \E t \in Thresholds : RCConstruct(t)
    /\ UNCHANGED fgvars

FitRC ==
    /\ \E F \in SeqsUpTo(Fingerprints, MaxFingerprints) :
          \E L \in LabelLists(Len(F)) : RCFit(F, L)
    /\ UNCHANGED fgvars

PredictOutlierRC ==
    /\ \E F \in SeqsUpTo(Fingerprints, MaxFingerprints) : RCPredictOutlier(F)
    /\ UNCHANGED fgvars

----------------------------------------------------------------------------
(* Specifications.                                                         *)

Init == FGNew /\ RCNew

\* the calls on a FingerprintGenerator, in any order
Next == Construct \/ Fit \/ Transform

Spec == Init /\ [][Next]_vars

\* the calls on a RoomClassifier, in any order
NextRC == ConstructRC \/ FitRC \/ PredictOutlierRC

SpecRC == Init /\ [][NextRC]_vars

----------------------------------------------------------------------------
(* Properties.                                                             *)

\* the fingerprints the documentation of transform describes
ExpectedFingerprints(rssi, beacons, undetected) ==
    [k \in 1..Len(rssi) |->
        [i \in 1..Len(beacons) |->
            IF beacons[i] \in DOMAIN rssi[k] THEN rssi[k][beacons[i]] ELSE undetected]]

\* the beacons present in every observation of rssi
VisibleInAll(rssi) == {b \in Beacons : \A k \in 1..Len(rssi) : b \in DOMAIN rssi[k]}

\* C1: with a BeaconSet in place, transform returns normally one vector per
\* observation, in input order, each as long as the BeaconSet, with the
\* observation's value for BeaconSet[i] at position i when the observation
\* has that beacon and undetected_value otherwise.
C1_TransformEncodes ==
    (call.op = "transform" /\ ~_beacons.none) =>
        /\ err = ""
        /\ Len(ret) = Len(call.rssi)
        /\ \A k \in 1..Len(ret) : Len(ret[k]) = Len(_beacons.items)
        /\ ret = ExpectedFingerprints(call.rssi, _beacons.items, _undetected_value)

\* C1 witness: a transform of two observations after a fit, whose first
\* vector holds both an observed value and the fill value.
C1_Witness ==
    /\ call.op = "transform" /\ fit_called /\ ~_beacons.none
    /\ Len(call.rssi) = 2 /\ ret[1] # ret[2]
    /\ \E i, j \in 1..Len(ret[1]) :
          /\ ret[1][i] = _undetected_value
          /\ _beacons.items[j] \in DOMAIN call.rssi[1]
          /\ ret[1][j] = call.rssi[1][_beacons.items[j]]

\* C2: after fit returns under always_visible on a non-empty list, the
\* BeaconSet taken as a set is the intersection of the observations' key sets.
C2_AlwaysVisibleIsIntersection ==
    (call.op = "fit" /\ err = "" /\ _method = "always_visible" /\ call.rssi # <<>>) =>
        Range(_beacons.items) = VisibleInAll(call.rssi)

\* C3: constructing with method fixed and beacons None or empty raises the
\* configuration error and leaves the instance without any attribute.
C3_FixedWithoutBeaconsFails ==
    (call.op = "__init__" /\ call.method = "fixed" /\ Falsy(call.beacons)) =>
        /\ err = "Exception"
        /\ fgState = "failed"
        /\ _attrs = {}
        /\ _method = "unset"

\* C3 witness: the constructor was called with method fixed and an empty
\* beacon list, and raised.
C3_Witness ==
    /\ call.op = "__init__" /\ call.method = "fixed"
    /\ call.beacons = List(<<>>)
    /\ err = "Exception"

\* C4: after a fit that returned, predict_outlier gives one boolean per input,
\* TRUE exactly when every training point is farther than outlier_threshold
\* from the input in the reduced space; with a positive threshold it gives
\* FALSE for every fingerprint of the training set.
C4_OutlierIffBeyondNearest ==
    (rcCall.op = "predict_outlier" /\ dimred.fitted) =>
        /\ rcErr = ""
        /\ Len(rcRet) = Len(rcCall.fingerprints)
        /\ \A i \in 1..Len(rcRet) :
              rcRet[i] = (\A t \in 1..Len(fitted_on) :
                             Abs(PCA_transform(dimred, rcCall.fingerprints[i])
                                 - PCA_transform(dimred, fitted_on[t])) > outlier_threshold)
        /\ (outlier_threshold > 0 /\ rcCall.fingerprints = fitted_on) =>
              \A i \in 1..Len(rcRet) : rcRet[i] = FALSE

\* C4 witness: one call flags one input as an outlier and clears another
\* that belongs to the training set.
C4_Witness ==
    /\ rcCall.op = "predict_outlier" /\ dimred.fitted /\ rcErr = ""
    /\ \E i, j \in 1..Len(rcRet) :
          /\ rcRet[i] = TRUE
          /\ rcRet[j] = FALSE
          /\ rcCall.fingerprints[j] \in Range(fitted_on)

\* C6 as stated: once the BeaconSet is fixed, no later call changes it.
C6_BeaconSetFrozen == [][established => _beacons' = _beacons]_vars

\* C6 amended: once the BeaconSet is fixed, only a fit that returns normally
\* with always_visible or all in force changes it; transform, a fit under
\* fixed and a fit that raises leave its contents and order as they were.
C6_OnlyRefitChangesBeaconSet ==
    [][(established /\ _beacons' # _beacons) =>
          (call'.op = "fit" /\ err' = "" /\ _method' \in {"always_visible", "all"})]_vars

\* C6 witness: fit was called without override on an instance whose method
\* is fixed and whose BeaconSet is fixed, with observations to fit.
C6_Witness ==
    /\ established /\ call.op = "fit" /\ call.method = "None"
    /\ _method = "fixed" /\ err = "" /\ call.rssi # <<>>
    /\ VisibleInAll(call.rssi) # Range(_beacons.items)

\* C7: the BeaconSet of a constructed instance holds no beacon twice.
C7_NoDuplicateBeacons ==
    (fgState = "ready" /\ ~_beacons.none) =>
        Cardinality(Range(_beacons.items)) = Len(_beacons.items)

\* C8: transform on an instance constructed without beacons, before any fit,
\* returns normally one empty vector per observation.
C8_TransformBeforeFitGivesEmptyVectors ==
    (call.op = "transform" /\ ~fit_called /\ _beacons.none) =>
        /\ err = ""
        /\ ret = [k \in 1..Len(call.rssi) |-> <<>>]

\* C9: a fit that raises leaves the method and the BeaconSet as they were.
C9_FailedFitChangesNothing ==
    [][(call'.op = "fit" /\ err' # "") =>
          (_method' = _method /\ _beacons' = _beacons)]_vars

\* C10: while the method is fixed the BeaconSet is a non-empty beacon list,
\* and a fit whose override selects fixed on an instance without beacons
\* raises the configuration error.
C10_FixedHasBeacons ==
    /\ (fgState = "ready" /\ _method = "fixed") => ~Falsy(_beacons)
    /\ (call.op = "fit" /\ call.method = "fixed" /\ Falsy(_beacons)) => err = "Exception"

=============================================================================
